---- MODULE Spec2Model ----
(***************************************************************************)
(* Path-compressed prefix trie for CIDR ranges (ranger/trie/trie.go).      *)
(*                                                                         *)
(* A network number is the set of bit positions (0 = least significant,    *)
(* 31 = most significant) that are set in the 32-bit address.  A network   *)
(* is a record [num, len] with the host bits of num cleared.               *)
(*                                                                         *)
(* The heap is a sequence of nodes; a node reference is an index into it   *)
(* and Nil (0) is the nil pointer.  Nodes are never freed, so a node that  *)
(* was unlinked from the tree stays addressable through the parent         *)
(* references that still point at it.                                      *)
(*                                                                         *)
(* Go's uint is modelled by the two's-complement representative of the     *)
(* value: 31 - 32 is kept as -1, which stands for the largest uint, and    *)
(* unsigned comparison orders every negative representative above every    *)
(* non-negative one.                                                       *)
(***************************************************************************)
EXTENDS Integers, Sequences, FiniteSets, TLC

VARIABLES heap, present, last, hist, procs, heap0, overlap, gor, closed, out, consumer

\* hist is the sequence of calls made so far in the scenario specification.
scenarioVars == <<hist>>

\* procs holds the two calls that run interleaved, heap0 the heap at the
\* moment they were started, overlap whether their steps have interleaved.
raceVars == <<procs, heap0, overlap>>

\* gor holds the goroutine walkDepth started on each node, closed the nodes
\* whose channel is closed, out the networks the consumer has received and
\* consumer the position of the consumer.
walkVars == <<gor, closed, out, consumer>>

vars == <<heap, present, last, scenarioVars, raceVars, walkVars>>

\* ---- bounds of the model ------------------------------------------------
MaxNodes == 4
HiBits == 2
MaxCalls == 4
MaxSetup == 1
MaxRaceLen == 2
MaxWalkNets == 3

\* ---- program constants --------------------------------------------------
BitsPerUint32 == 32
Nil == 0
Root == 1

NoErr == "nil"
ErrInvalidBitPosition == "ErrInvalidBitPosition"
ErrNoGreatestCommonBit == "ErrNoGreatestCommonBit"
ErrInvalidNetworkNumberInput == "ErrInvalidNetworkNumberInput"
Panic == "panic: nil pointer dereference"

\* ---- inputs -------------------------------------------------------------
\* Addresses differ in their HiBits leading bits; networks are the prefixes of
\* at most HiBits bits of these addresses and their /32 host networks.
VarBits == {b \in 0..31 : b >= 32 - HiBits}
Addrs == SUBSET VarBits
PrefixLens == {n \in 0..32 : n <= HiBits \/ n = 32}
IPv4len == 4
InvalidIP == [len |-> 3, num |-> {}]
IPs == {[len |-> IPv4len, num |-> a] : a \in Addrs} \cup {InvalidIP}

\* ---- github.com/yl2chen/cidranger/net -----------------------------------
SetMax(S) == CHOOSE m \in S : \A x \in S : x <= m

Max(a, b) == IF a >= b THEN a ELSE b

Min(a, b) == IF a <= b THEN a ELSE b

\* The nil NetworkNumber, returned for an IP that is not an IPv4 address.
NilNumber == {-1}

NewNetworkNumber(ip) == IF ip.len # IPv4len THEN NilNumber ELSE ip.num

Masked(network, ones) ==
    [num |-> {b \in network.num : b >= 32 - ones}, len |-> ones]

NewNetwork(num, ones) == Masked([num |-> num, len |-> ones], ones)

Equal(n, n1) == n.num = n1.num /\ n.len = n1.len

NetworkContains(n, number) == {b \in number : b >= 32 - n.len} = n.num

Bit(number, position) ==
    IF position < 0 \/ position > BitsPerUint32 - 1
    THEN [val |-> 0, err |-> ErrInvalidBitPosition]
    ELSE [val |-> IF position \in number THEN 1 ELSE 0, err |-> NoErr]

NumberLeastCommonBitPosition(n, n1) ==
    LET diff == (n \ n1) \cup (n1 \ n)
    IN  IF diff = {} THEN [val |-> 0, err |-> NoErr]
        ELSE IF SetMax(diff) = 31 THEN [val |-> 0, err |-> ErrNoGreatestCommonBit]
        ELSE [val |-> SetMax(diff) + 1, err |-> NoErr]

LeastCommonBitPosition(n, n1) ==
    LET maskSize == Min(n.len, n1.len)
        maskPosition == BitsPerUint32 - maskSize
        lcb == NumberLeastCommonBitPosition(n.num, n1.num)
    IN  IF lcb.err # NoErr THEN lcb
        ELSE [val |-> Max(maskPosition, lcb.val), err |-> NoErr]

Networks == {NewNetwork(a, n) : a \in Addrs, n \in PrefixLens}

\* ---- uint arithmetic ----------------------------------------------------
USub(a, b) == a - b

UGt(a, b) ==
    IF (a < 0) = (b < 0) THEN a > b ELSE a < 0

\* ---- trie.go ------------------------------------------------------------
NewPrefixTree ==
    [parent |-> Nil, children |-> <<Nil, Nil>>, numBitsSkipped |-> 0,
     numBitsHandled |-> 1, network |-> NewNetwork({}, 0), hasEntry |-> FALSE]

\* newPathPrefixTrie counting one skipped bit too many.
newPathPrefixTrieOffByOne(h, network, numBitsSkipped) ==
    LET path == [NewPrefixTree EXCEPT !.numBitsSkipped = numBitsSkipped + 1,
                                      !.network = Masked(network, numBitsSkipped)]
    IN  [heap |-> Append(h, path), id |-> Len(h) + 1, err |-> NoErr]

\* newPathPrefixTrie storing the inserted network without masking it to the
\* skipped bits.
newPathPrefixTrieUnmasked(h, network, numBitsSkipped) ==
    LET path == [NewPrefixTree EXCEPT !.numBitsSkipped = numBitsSkipped,
                                      !.network = network]
    IN  [heap |-> Append(h, path), id |-> Len(h) + 1, err |-> NoErr]

\* Allocates the node at the end of the heap; id is its reference.
newPathPrefixTrie(h, network, numBitsSkipped) ==
    LET path == [NewPrefixTree EXCEPT !.numBitsSkipped = numBitsSkipped,
                                      !.network = Masked(network, numBitsSkipped)]
    IN  [heap |-> Append(h, path), id |-> Len(h) + 1, err |-> NoErr]

\* newEntryTrie leaving the leaf without its entry.
newEntryTrieNoEntry(h, network) == newPathPrefixTrie(h, network, network.len)

newEntryTrie(h, network) ==
    LET ones == network.len
        leaf == newPathPrefixTrie(h, network, ones)
    IN  IF leaf.err # NoErr THEN leaf
        ELSE [leaf EXCEPT !.heap[leaf.id].hasEntry = TRUE]

childrenCount(node) ==
    Cardinality({i \in 1..2 : node.children[i] # Nil})

\* targetBitPosition counting from the address width instead of width - 1.
targetBitPositionOffByOne(node) == USub(32, node.numBitsSkipped)

targetBitPosition(node) == USub(31, node.numBitsSkipped)

targetBitFromIP(node, n) == Bit(n, targetBitPosition(node))

RECURSIVE contains(_, _, _)
contains(h, p, number) ==
    IF ~NetworkContains(h[p].network, number) THEN [val |-> FALSE, err |-> NoErr]
    ELSE IF h[p].hasEntry THEN [val |-> TRUE, err |-> NoErr]
    ELSE LET bit == targetBitFromIP(h[p], number)
         IN  IF bit.err # NoErr THEN [val |-> FALSE, err |-> bit.err]
             ELSE LET child == h[p].children[bit.val + 1]
                  IN  IF child # Nil THEN contains(h, child, number)
                      ELSE [val |-> FALSE, err |-> NoErr]

\* containingNetworks with the node's own network appended after those of
\* the subtree.
RECURSIVE containingNetworksChildFirst(_, _, _)
containingNetworksChildFirst(h, p, number) ==
    IF ~NetworkContains(h[p].network, number) THEN [val |-> <<>>, err |-> NoErr]
    ELSE LET results == IF h[p].hasEntry THEN <<h[p].network>> ELSE <<>>
             bit == targetBitFromIP(h[p], number)
         IN  IF bit.err # NoErr THEN [val |-> <<>>, err |-> bit.err]
             ELSE LET child == h[p].children[bit.val + 1]
                  IN  IF child # Nil
                      THEN LET ranges == containingNetworksChildFirst(h, child, number)
                           IN  IF ranges.err # NoErr THEN [val |-> <<>>, err |-> ranges.err]
                               ELSE [val |-> ranges.val \o results, err |-> NoErr]
                      ELSE [val |-> results, err |-> NoErr]

RECURSIVE containingNetworks(_, _, _)
containingNetworks(h, p, number) ==
    IF ~NetworkContains(h[p].network, number) THEN [val |-> <<>>, err |-> NoErr]
    ELSE LET results == IF h[p].hasEntry THEN <<h[p].network>> ELSE <<>>
             bit == targetBitFromIP(h[p], number)
         IN  IF bit.err # NoErr THEN [val |-> <<>>, err |-> bit.err]
             ELSE LET child == h[p].children[bit.val + 1]
                  IN  IF child # Nil
                      THEN LET ranges == containingNetworks(h, child, number)
                           IN  IF ranges.err # NoErr THEN [val |-> <<>>, err |-> ranges.err]
                               ELSE [val |-> results \o ranges.val, err |-> NoErr]
                      ELSE [val |-> results, err |-> NoErr]

\* insertPrefix re-attaching the old child under the parent's bit instead of
\* the bit the new node reads from the child's address.
RECURSIVE insertPrefixParentBit(_, _, _, _)
insertPrefixParentBit(h, p, bits, prefix) ==
    LET child == h[p].children[bits + 1]
        prefixBit == targetBitFromIP(h[prefix], h[child].network.num)
        h1 == IF child # Nil THEN insertPrefixParentBit(h, prefix, bits, child).heap ELSE h
    IN  IF child # Nil /\ prefixBit.err # NoErr THEN [heap |-> h, err |-> prefixBit.err]
        ELSE [heap |-> [h1 EXCEPT ![p].children[bits + 1] = prefix,
                                  ![prefix].parent = p],
              err |-> NoErr]

RECURSIVE insertPrefix(_, _, _, _)
insertPrefix(h, p, bits, prefix) ==
    LET child == h[p].children[bits + 1]
        prefixBit == targetBitFromIP(h[prefix], h[child].network.num)
        h1 == IF child # Nil THEN insertPrefix(h, prefix, prefixBit.val, child).heap ELSE h
    IN  IF child # Nil /\ prefixBit.err # NoErr THEN [heap |-> h, err |-> prefixBit.err]
        ELSE [heap |-> [h1 EXCEPT ![p].children[bits + 1] = prefix,
                                  ![prefix].parent = p],
              err |-> NoErr]

\* insert with the new path node bound to a shadowed variable, so that
\* after a split the descent continues in the old child.
RECURSIVE insertShadowedChild(_, _, _)
insertShadowedChild(h, p, network) ==
    IF Equal(h[p].network, network)
    THEN [heap |-> [h EXCEPT ![p].hasEntry = TRUE], err |-> NoErr]
    ELSE LET bit == targetBitFromIP(h[p], network.num)
             child == h[p].children[bit.val + 1]
             entry == newEntryTrie(h, network)
             lcb == LeastCommonBitPosition(network, h[child].network)
             path == newPathPrefixTrie(h, network, USub(32, lcb.val))
             split == insertPrefix(path.heap, p, bit.val, path.id)
         IN  IF bit.err # NoErr THEN [heap |-> h, err |-> bit.err]
             ELSE IF child = Nil
             THEN IF entry.err # NoErr THEN [heap |-> h, err |-> entry.err]
                  ELSE insertPrefix(entry.heap, p, bit.val, entry.id)
             ELSE IF lcb.err # NoErr THEN [heap |-> h, err |-> lcb.err]
             ELSE IF UGt(USub(lcb.val, 1), targetBitPosition(h[child]))
             THEN IF path.err # NoErr THEN [heap |-> h, err |-> path.err]
                  ELSE IF split.err # NoErr THEN split
                  ELSE insertShadowedChild(split.heap, child, network)
             ELSE insertShadowedChild(h, child, network)

RECURSIVE insert(_, _, _)
insert(h, p, network) ==
    IF Equal(h[p].network, network)
    THEN [heap |-> [h EXCEPT ![p].hasEntry = TRUE], err |-> NoErr]
    ELSE LET bit == targetBitFromIP(h[p], network.num)
             child == h[p].children[bit.val + 1]
             entry == newEntryTrie(h, network)
             lcb == LeastCommonBitPosition(network, h[child].network)
             path == newPathPrefixTrie(h, network, USub(32, lcb.val))
             split == insertPrefix(path.heap, p, bit.val, path.id)
         IN  IF bit.err # NoErr THEN [heap |-> h, err |-> bit.err]
             ELSE IF child = Nil
             THEN IF entry.err # NoErr THEN [heap |-> h, err |-> entry.err]
                  ELSE insertPrefix(entry.heap, p, bit.val, entry.id)
             ELSE IF lcb.err # NoErr THEN [heap |-> h, err |-> lcb.err]
             ELSE IF UGt(USub(lcb.val, 1), targetBitPosition(h[child]))
             THEN IF path.err # NoErr THEN [heap |-> h, err |-> path.err]
                  ELSE IF split.err # NoErr THEN split
                  ELSE insert(split.heap, path.id, network)
             ELSE insert(h, child, network)

RECURSIVE remove(_, _, _)
remove(h, p, network) ==
    IF h[p].hasEntry /\ Equal(h[p].network, network)
    THEN IF childrenCount(h[p]) > 1
         THEN [heap |-> [h EXCEPT ![p].hasEntry = FALSE], found |-> TRUE, err |-> NoErr]
         ELSE IF h[p].parent = Nil
         THEN [heap |-> h, found |-> FALSE, err |-> Panic]
         ELSE LET parentBits == targetBitFromIP(h[h[p].parent], network.num)
                  skipChild == IF h[p].children[1] # Nil THEN h[p].children[1]
                               ELSE h[p].children[2]
              IN  IF parentBits.err # NoErr
                  THEN [heap |-> h, found |-> FALSE, err |-> parentBits.err]
                  ELSE [heap |-> [h EXCEPT ![h[p].parent].children[parentBits.val + 1] = skipChild],
                        found |-> TRUE, err |-> NoErr]
    ELSE LET bit == targetBitFromIP(h[p], network.num)
         IN  IF bit.err # NoErr THEN [heap |-> h, found |-> FALSE, err |-> bit.err]
             ELSE LET child == h[p].children[bit.val + 1]
                  IN  IF child # Nil THEN remove(h, child, network)
                      ELSE [heap |-> h, found |-> FALSE, err |-> NoErr]

\* ---- garbage collection ---------------------------------------------------
\* The nodes a pointer chain from the root still reaches (through children
\* or parent references), in depth-first order of first visit.
RECURSIVE Reach(_, _, _)
Reach(h, seen, p) ==
    IF p = Nil \/ \E i \in 1..Len(seen) : seen[i] = p THEN seen
    ELSE Reach(h, Reach(h, Reach(h, Append(seen, p), h[p].children[1]),
                        h[p].children[2]),
               h[p].parent)

\* Drops the unreachable nodes and renumbers the others in Reach order: a
\* node reference is not observable, only the shape of the pointer graph is.
Compact(h) ==
    LET order == Reach(h, <<>>, Root)
        ref(p) == IF p = Nil THEN Nil ELSE CHOOSE i \in 1..Len(order) : order[i] = p
    IN  [i \in 1..Len(order) |->
            [h[order[i]] EXCEPT !.parent = ref(@),
                                !.children = <<ref(@[1]), ref(@[2])>>]]

\* ---- the operations as sequences of field reads and writes ---------------
\* A call in progress: the operation, its argument, the position in its code
\* and its local variables.  network and numBitsSkipped of a node are written
\* before the node is linked and never after, so that reading them shares a
\* step with the next read of a field that does change.
NoNet == [num |-> {}, len |-> 0]

Idle ==
    [op |-> "idle", pc |-> "idle", net |-> NoNet, num |-> {}, p |-> Nil,
     bit |-> 0, child |-> Nil, prefix |-> Nil, prefixBit |-> 0, cont |-> "",
     count |-> 0, parent |-> Nil, parentBits |-> 0, results |-> <<>>,
     err |-> NoErr, ok |-> FALSE]

Begin(op, net, num) ==
    [Idle EXCEPT !.op = op, !.net = net, !.num = num, !.p = Root,
                 !.pc = CASE op = "Insert" -> "insert"
                          [] op = "Remove" -> "remove"
                          [] op = "Contains" -> "contains"
                          [] OTHER -> "containingNetworks"]

\* The call returns: its locals are dropped, its results kept.
Return(q, err, ok, results) ==
    [Idle EXCEPT !.op = q.op, !.net = q.net, !.num = q.num, !.pc = "done",
                 !.err = err, !.ok = ok, !.results = results]

At(h, q, pc) == [heap |-> h, proc |-> [q EXCEPT !.pc = pc]]

Done(h, q, err, ok, results) == [heap |-> h, proc |-> Return(q, err, ok, results)]

\* One step of insertPrefix(bits = q.bit, prefix = q.prefix) on node q.p, with
\* the nested call on the prefix node; q.cont is where insert continues.
insertPrefixStep(h, q) ==
    CASE q.pc = "insertPrefix" ->
           LET child == h[q.p].children[q.bit + 1]
               prefixBit == targetBitFromIP(h[q.prefix], h[child].network.num)
           IN  IF child = Nil THEN At(h, q, "link")
               ELSE IF prefixBit.err # NoErr THEN Done(h, q, prefixBit.err, FALSE, <<>>)
               ELSE At(h, [q EXCEPT !.child = child, !.prefixBit = prefixBit.val], "nested")
      [] q.pc = "nested" ->
           At([h EXCEPT ![q.prefix].children[q.prefixBit + 1] = q.child], q, "nestedParent")
      [] q.pc = "nestedParent" ->
           At([h EXCEPT ![q.child].parent = q.prefix], q, "link")
      [] q.pc = "link" ->
           At([h EXCEPT ![q.p].children[q.bit + 1] = q.prefix], q, "linkParent")
      [] q.pc = "linkParent" ->
           LET h1 == [h EXCEPT ![q.prefix].parent = q.p]
           IN  IF q.cont = "return" THEN Done(h1, q, NoErr, TRUE, <<>>)
               ELSE At(h1, [q EXCEPT !.p = q.prefix], "insert")

insertStep(h, q) ==
    CASE q.pc = "insert" ->
           LET bit == targetBitFromIP(h[q.p], q.net.num)
           IN  IF Equal(h[q.p].network, q.net) THEN At(h, q, "setEntry")
               ELSE IF bit.err # NoErr THEN Done(h, q, bit.err, FALSE, <<>>)
               ELSE At(h, [q EXCEPT !.bit = bit.val], "child")
      [] q.pc = "setEntry" ->
           Done([h EXCEPT ![q.p].hasEntry = TRUE], q, NoErr, TRUE, <<>>)
      [] q.pc = "child" ->
           LET child == h[q.p].children[q.bit + 1]
               entry == newEntryTrie(h, q.net)
               lcb == LeastCommonBitPosition(q.net, h[child].network)
               path == newPathPrefixTrie(h, q.net, USub(32, lcb.val))
           IN  IF child = Nil
               THEN At(entry.heap, [q EXCEPT !.prefix = entry.id, !.cont = "return"], "insertPrefix")
               ELSE IF lcb.err # NoErr THEN Done(h, q, lcb.err, FALSE, <<>>)
               ELSE IF UGt(USub(lcb.val, 1), targetBitPosition(h[child]))
               THEN At(path.heap, [q EXCEPT !.prefix = path.id, !.cont = "insert"], "insertPrefix")
               ELSE At(h, [q EXCEPT !.p = child], "insert")
      [] OTHER -> insertPrefixStep(h, q)

removeStep(h, q) ==
    CASE q.pc = "remove" ->
           LET bit == targetBitFromIP(h[q.p], q.net.num)
           IN  IF h[q.p].hasEntry /\ Equal(h[q.p].network, q.net) THEN At(h, q, "count0")
               ELSE IF bit.err # NoErr THEN Done(h, q, bit.err, FALSE, <<>>)
               ELSE At(h, [q EXCEPT !.bit = bit.val], "child")
      [] q.pc = "child" ->
           LET child == h[q.p].children[q.bit + 1]
           IN  IF child # Nil THEN At(h, [q EXCEPT !.p = child], "remove")
               ELSE Done(h, q, NoErr, FALSE, <<>>)
      [] q.pc = "count0" ->
           At(h, [q EXCEPT !.count = IF h[q.p].children[1] # Nil THEN 1 ELSE 0], "count1")
      [] q.pc = "count1" ->
           LET count == q.count + (IF h[q.p].children[2] # Nil THEN 1 ELSE 0)
           IN  At(h, [q EXCEPT !.count = 0], IF count > 1 THEN "clearEntry" ELSE "parent")
      [] q.pc = "clearEntry" ->
           Done([h EXCEPT ![q.p].hasEntry = FALSE], q, NoErr, TRUE, <<>>)
      [] q.pc = "parent" ->
           LET parent == h[q.p].parent
               parentBits == targetBitFromIP(h[parent], q.net.num)
           IN  IF parent = Nil THEN Done(h, q, Panic, FALSE, <<>>)
               ELSE IF parentBits.err # NoErr THEN Done(h, q, parentBits.err, FALSE, <<>>)
               ELSE At(h, [q EXCEPT !.parent = parent, !.parentBits = parentBits.val], "skip0")
      [] q.pc = "skip0" ->
           IF h[q.p].children[1] # Nil
           THEN At(h, [q EXCEPT !.child = h[q.p].children[1]], "splice")
           ELSE At(h, q, "skip1")
      [] q.pc = "skip1" ->
           At(h, [q EXCEPT !.child = h[q.p].children[2]], "splice")
      [] q.pc = "splice" ->
           Done([h EXCEPT ![q.parent].children[q.parentBits + 1] = q.child], q, NoErr, TRUE, <<>>)

containsStep(h, q) ==
    CASE q.pc = "contains" ->
           LET bit == targetBitFromIP(h[q.p], q.num)
           IN  IF ~NetworkContains(h[q.p].network, q.num) THEN Done(h, q, NoErr, FALSE, <<>>)
               ELSE IF h[q.p].hasEntry THEN Done(h, q, NoErr, TRUE, <<>>)
               ELSE IF bit.err # NoErr THEN Done(h, q, bit.err, FALSE, <<>>)
               ELSE At(h, [q EXCEPT !.bit = bit.val], "child")
      [] q.pc = "child" ->
           LET child == h[q.p].children[q.bit + 1]
           IN  IF child # Nil THEN At(h, [q EXCEPT !.p = child], "contains")
               ELSE Done(h, q, NoErr, FALSE, <<>>)

\* containingNetworks leaving out the entry of the node it is on.
containingNetworksStepNoEntry(h, q) ==
    CASE q.pc = "containingNetworks" ->
           LET bit == targetBitFromIP(h[q.p], q.num)
           IN  IF ~NetworkContains(h[q.p].network, q.num) THEN Done(h, q, NoErr, FALSE, q.results)
               ELSE IF bit.err # NoErr THEN Done(h, q, bit.err, FALSE, <<>>)
               ELSE At(h, [q EXCEPT !.bit = bit.val], "child")
      [] q.pc = "child" ->
           LET child == h[q.p].children[q.bit + 1]
           IN  IF child # Nil THEN At(h, [q EXCEPT !.p = child], "containingNetworks")
               ELSE Done(h, q, NoErr, FALSE, q.results)

containingNetworksStep(h, q) ==
    CASE q.pc = "containingNetworks" ->
           LET results == IF h[q.p].hasEntry THEN Append(q.results, h[q.p].network)
                          ELSE q.results
               bit == targetBitFromIP(h[q.p], q.num)
           IN  IF ~NetworkContains(h[q.p].network, q.num) THEN Done(h, q, NoErr, FALSE, q.results)
               ELSE IF bit.err # NoErr THEN Done(h, q, bit.err, FALSE, <<>>)
               ELSE At(h, [q EXCEPT !.bit = bit.val, !.results = results], "child")
      [] q.pc = "child" ->
           LET child == h[q.p].children[q.bit + 1]
           IN  IF child # Nil THEN At(h, [q EXCEPT !.p = child], "containingNetworks")
               ELSE Done(h, q, NoErr, FALSE, q.results)

\* ---- the public operations -----------------------------------------------
Running == last.err # Panic

\* The outcome of the last call: its name, the error it returned and, for
\* Remove, whether it returned a network.
Call(op, err, ok) == [op |-> op, err |-> err, ok |-> ok]

Init ==
    /\ heap = <<NewPrefixTree>>
    /\ present = {}
    /\ last = Call("NewPrefixTree", NoErr, TRUE)
    /\ hist = <<>>
    /\ procs = <<Idle, Idle>>
    /\ heap0 = <<>>
    /\ overlap = FALSE
    /\ gor = <<>>
    /\ closed = {}
    /\ out = <<>>
    /\ consumer = "idle"

Insert(network) ==
    LET r == insert(heap, Root, NewNetwork(network.num, network.len))
        h == Compact(r.heap)
    IN  /\ Running
        /\ Len(h) <= MaxNodes
        /\ heap' = h
        /\ present' = IF r.err = NoErr THEN present \cup {network} ELSE present
        /\ last' = Call("Insert", r.err, r.err = NoErr)

Remove(network) ==
    LET r == remove(heap, Root, NewNetwork(network.num, network.len))
    IN  /\ Running
        /\ heap' = Compact(r.heap)
        /\ present' = IF r.found THEN present \ {network} ELSE present
        /\ last' = Call("Remove", r.err, r.found)

Contains(h, ip) ==
    LET nn == NewNetworkNumber(ip)
    IN  IF nn = NilNumber THEN [val |-> FALSE, err |-> ErrInvalidNetworkNumberInput]
        ELSE contains(h, Root, nn)

ContainingNetworks(h, ip) ==
    LET nn == NewNetworkNumber(ip)
    IN  IF nn = NilNumber THEN [val |-> <<>>, err |-> ErrInvalidNetworkNumberInput]
        ELSE containingNetworks(h, Root, nn)

Next ==
    \/ \E network \in Networks : Insert(network) /\ UNCHANGED <<scenarioVars, raceVars, walkVars>>
    \/ \E network \in Networks : Remove(network) /\ UNCHANGED <<scenarioVars, raceVars, walkVars>>

Spec == Init /\ [][Next]_vars

TypeOK ==
    /\ present \subseteq Networks
    /\ Len(heap) \in 1..MaxNodes

\* ---- vocabulary of the properties ----------------------------------------
IP(a) == [len |-> IPv4len, num |-> a]

Range(seq) == {seq[i] : i \in 1..Len(seq)}

\* The networks of S that contain address a.
Covering(S, a) == {n \in S : NetworkContains(n, a)}

\* Every answer the two queries give on heap h.
Answers(h) ==
    [ip \in IPs |-> [contains |-> Contains(h, ip), networks |-> ContainingNetworks(h, ip)]]

AllNet == NewNetwork({}, 0)

\* C1: for every IPv4 address a, Contains(a) returns true exactly when a
\* network that was inserted and not removed since contains a.
C1_ContainsIffPresent ==
    \A a \in Addrs :
        LET r == Contains(heap, IP(a))
        IN  r.err = NoErr /\ (r.val <=> Covering(present, a) # {})

\* C2: for every valid address a, ContainingNetworks(a) returns without
\* error exactly the present networks that contain a, each once (the empty
\* sequence when there is none); an invalid address is its only error.
C2_ContainingNetworksExact ==
    /\ \A a \in Addrs :
          LET r == ContainingNetworks(heap, IP(a))
          IN  /\ r.err = NoErr
              /\ Range(r.val) = Covering(present, a)
              /\ Len(r.val) = Cardinality(Range(r.val))
    /\ ContainingNetworks(heap, InvalidIP).err = ErrInvalidNetworkNumberInput
\* Network n is listed by ContainingNetworks on heap h for address a.
Lists(h, a, n) ==
    LET r == ContainingNetworks(h, IP(a))
    IN  r.err = NoErr /\ n \in Range(r.val)

\* C3: in every reachable state Insert(N) of any valid network N returns no
\* error, and afterwards ContainingNetworks(a) includes N for every address
\* a of N, whatever is already stored (a /32 network sharing leading bits
\* with N included).
C3_InsertSucceeds ==
    \A n \in Networks :
        LET r == insert(heap, Root, n)
        IN  /\ r.err = NoErr
            /\ \A a \in Addrs : NetworkContains(n, a) => Lists(r.heap, a, n)

\* C4: if network N is present, Remove(N) returns N with no error, and
\* afterwards no ContainingNetworks(a) lists N and Contains(a) is false for
\* every address a of N that no other present network contains.
C4_RemovePresent ==
    \A n \in present :
        LET r == remove(heap, Root, n)
        IN  /\ r.err = NoErr
            /\ r.found
            /\ \A a \in Addrs :
                  /\ ~Lists(r.heap, a, n)
                  /\ (NetworkContains(n, a) /\ Covering(present \ {n}, a) = {})
                        => (Contains(r.heap, IP(a)) = [val |-> FALSE, err |-> NoErr])

\* C5: Remove(N) of a network N that is not present returns "not found"
\* (no network, no error) and leaves the trie unchanged, so that every
\* query answers as before.
C5_RemoveAbsent ==
    \A n \in Networks \ present :
        LET r == remove(heap, Root, n)
        IN  /\ r.err = NoErr
            /\ ~r.found
            /\ r.heap = heap
            /\ Answers(r.heap) = Answers(heap)

\* C6: Remove(0.0.0.0/0) when the root has its entry completes normally for
\* 0, 1 or 2 root children: it returns the network, and afterwards the root
\* is still 0.0.0.0/0 with numBitsSkipped = 0, hasEntry = FALSE and the
\* children it had.
C6_RemoveRootEntry ==
    heap[Root].hasEntry =>
        LET r == remove(heap, Root, AllNet)
        IN  /\ r.err = NoErr
            /\ r.found
            /\ r.heap[Root] = [heap[Root] EXCEPT !.hasEntry = FALSE]
            /\ r.heap[Root].network = AllNet
            /\ r.heap[Root].numBitsSkipped = 0
\* C7: the networks ContainingNetworks(a) returns are in ascending
\* prefix-length order, each strictly longer than the one before it.
C7_AscendingPrefixOrder ==
    \A a \in Addrs :
        LET r == ContainingNetworks(heap, IP(a))
        IN  r.err = NoErr =>
                \A i \in 1..Len(r.val) : \A j \in 1..Len(r.val) :
                    i < j => r.val[i].len < r.val[j].len

\* ContainingNetworks answers with two or more networks for some address.
C7_Witness ==
    \E a \in Addrs :
        LET r == ContainingNetworks(heap, IP(a))
        IN  r.err = NoErr /\ Len(r.val) >= 2

\* Heaps g and h have the same nodes and links; only hasEntry flags may differ.
SameNodes(g, h) ==
    /\ Len(g) = Len(h)
    /\ \A i \in 1..Len(g) : [g[i] EXCEPT !.hasEntry = FALSE] = [h[i] EXCEPT !.hasEntry = FALSE]

\* C8: for every valid network N, Insert(N) twice in a row leaves every
\* query answer as after the first call, the second call returns no error
\* and creates no node (it only sets the existing node's hasEntry).
C8_InsertIdempotent ==
    \A n \in Networks :
        LET r1 == insert(heap, Root, n)
            r2 == insert(r1.heap, Root, n)
        IN  /\ r2.err = NoErr
            /\ Answers(r2.heap) = Answers(r1.heap)
            /\ SameNodes(r2.heap, r1.heap)

\* C9: for every valid network N that is not present, Insert(N) followed
\* by Remove(N) both succeed and leave every answer of Contains and
\* ContainingNetworks as it was before the Insert.
C9_InsertRemoveRestores ==
    \A n \in Networks \ present :
        LET r1 == insert(heap, Root, n)
            r2 == remove(r1.heap, Root, n)
        IN  /\ r1.err = NoErr
            /\ r2.err = NoErr
            /\ r2.found
            /\ Answers(r2.heap) = Answers(heap)

\* C10: if Insert returns an error the trie is unchanged: no node created
\* or attached, no child slot or parent reference rewritten, no hasEntry
\* flag changed, at any level of the recursion.
C10_FailedInsertLeavesTrie ==
    \A n \in Networks :
        LET r == insert(heap, Root, n)
        IN  r.err # NoErr => r.heap = heap

\* An Insert has returned an error.
C10_Witness == last.op = "Insert" /\ last.err # NoErr
\* The nodes of heap h that the root reaches through child slots.
RECURSIVE Subtree(_, _)
Subtree(h, p) ==
    IF p = Nil THEN {}
    ELSE {p} \cup Subtree(h, h[p].children[1]) \cup Subtree(h, h[p].children[2])

Live(h) == Subtree(h, Root)

\* The child slots of node p that are occupied.
Slots(h, p) == {b \in 0..1 : h[p].children[b + 1] # Nil}

\* C11: every node reachable from the root has numBitsSkipped <= 32 and
\* every child has numBitsSkipped strictly greater than its parent's.
C11_DepthBounded ==
    \A p \in Live(heap) :
        /\ heap[p].numBitsSkipped \in 0..32
        /\ \A b \in Slots(heap, p) :
              heap[heap[p].children[b + 1]].numBitsSkipped > heap[p].numBitsSkipped

\* A /32 node hangs two levels below the root.
C11_Witness ==
    \E p \in Live(heap) \ {Root} : \E b \in Slots(heap, p) :
        heap[heap[p].children[b + 1]].numBitsSkipped = 32

\* C13: every non-root node reachable from the root has a parent reference
\* equal to the node whose child slot holds it, and the root has none.
C13_ParentIsHolder ==
    /\ heap[Root].parent = Nil
    /\ \A p \in Live(heap) : \A b \in Slots(heap, p) :
          heap[heap[p].children[b + 1]].parent = p

\* C14: every non-root node reachable from the root has hasEntry set or
\* both child slots occupied.
C14_Compressed ==
    \A p \in Live(heap) \ {Root} :
        heap[p].hasEntry \/ Slots(heap, p) = {0, 1}

\* C15: for every reachable node N with child C in slot b, C's prefix is
\* strictly longer than N's, N's network contains C's, and the bit of C's
\* address at N's target bit position is b.
C15_ChildExtendsParent ==
    \A p \in Live(heap) : \A b \in Slots(heap, p) :
        LET c == heap[heap[p].children[b + 1]]
        IN  /\ c.network.len > heap[p].network.len
            /\ NetworkContains(heap[p].network, c.network.num)
            /\ Bit(c.network.num, 31 - heap[p].numBitsSkipped) = [val |-> b, err |-> NoErr]

\* A child promoted by Remove's splice hangs under a node that holds
\* another child as well.
C15_Witness ==
    \E p \in Live(heap) : \E b \in Slots(heap, p) :
        /\ heap[heap[p].children[b + 1]].parent # p
        /\ Slots(heap, p) = {0, 1}
\* The longest common prefix of networks x and y: as many leading bits as
\* both prefixes have and agree on.
CommonPrefix(x, y) ==
    LET L == SetMax({l \in 0..Min(x.len, y.len) : Masked(x, l).num = Masked(y, l).num})
    IN  Masked(x, L)

\* C16: when Insert(N) splits above child C, the new intermediate node's
\* prefix is the longest common prefix of N and C (length 32 - lcb), it
\* takes C's place in the parent's slot, C is its child in the slot of C's
\* bit at the new node's target position, and the new node either is N
\* with hasEntry set or holds N's leaf in the other slot; no further node
\* is created.
C16_SplitAtDivergence ==
    \A n \in Networks :
        LET r == insert(heap, Root, n)
            k == Len(heap) + 1
        IN  (r.err = NoErr /\ Len(r.heap) >= k /\ Slots(r.heap, k) # {}) =>
              \E p \in Live(heap) : \E b \in Slots(heap, p) : \E cb \in 0..1 :
                LET c == heap[p].children[b + 1]
                    lcb == LeastCommonBitPosition(n, heap[c].network)
                    node == r.heap[k]
                    other == node.children[(1 - cb) + 1]
                IN  /\ r.heap[p].children[b + 1] = k
                    /\ node.parent = p
                    /\ node.network = CommonPrefix(n, heap[c].network)
                    /\ node.network.len = 32 - lcb.val
                    /\ node.numBitsSkipped = node.network.len
                    /\ node.children[cb + 1] = c
                    /\ r.heap[c].parent = k
                    /\ Bit(heap[c].network.num, 31 - node.numBitsSkipped) = [val |-> cb, err |-> NoErr]
                    /\ \/ /\ Equal(node.network, n)
                          /\ node.hasEntry
                          /\ other = Nil
                          /\ Len(r.heap) = k
                       \/ /\ ~node.hasEntry
                          /\ other = k + 1
                          /\ Len(r.heap) = k + 1
                          /\ r.heap[other] = [NewPrefixTree EXCEPT !.parent = k,
                                                                   !.numBitsSkipped = n.len,
                                                                   !.network = n,
                                                                   !.hasEntry = TRUE]

\* An Insert has split: an entry-less branch node holds two entries that
\* diverge below it.
C16_Witness ==
    /\ last.op = "Insert" /\ last.err = NoErr
    /\ \E p \in Live(heap) \ {Root} :
          /\ ~heap[p].hasEntry
          /\ Slots(heap, p) = {0, 1}
          /\ heap[p].network \notin present
          /\ \A b \in 0..1 : heap[heap[p].children[b + 1]].network \in present
\* The pairs <<lcb, child's target bit position>> that insert of network n
\* compares on its way down from node p.
RECURSIVE InsertCompares(_, _, _)
InsertCompares(h, p, n) ==
    LET bit == targetBitFromIP(h[p], n.num)
        child == h[p].children[bit.val + 1]
        lcb == LeastCommonBitPosition(n, h[child].network)
    IN  IF Equal(h[p].network, n) \/ bit.err # NoErr THEN {}
        ELSE IF child = Nil THEN {}
        ELSE IF lcb.err # NoErr THEN {}
        ELSE {<<lcb.val, targetBitPosition(h[child])>>}
             \cup (IF UGt(USub(lcb.val, 1), targetBitPosition(h[child])) THEN {}
                   ELSE InsertCompares(h, child, n))

\* C17: every target bit position an operation computes is within 0..31:
\* neither 31 - numBitsSkipped nor lcb - 1 wraps around, and no operation
\* returns the invalid-bit-position error.
C17_BitPositionsInRange ==
    /\ \A p \in Live(heap) : targetBitPosition(heap[p]) \in 0..31
    /\ \A n \in Networks :
          /\ insert(heap, Root, n).err # ErrInvalidBitPosition
          /\ remove(heap, Root, n).err # ErrInvalidBitPosition
          /\ \A c \in InsertCompares(heap, Root, n) :
                USub(c[1], 1) \in 0..31 /\ c[2] \in 0..31
    /\ \A a \in Addrs :
          /\ Contains(heap, IP(a)).err # ErrInvalidBitPosition
          /\ ContainingNetworks(heap, IP(a)).err # ErrInvalidBitPosition
\* ---- the scenario of 192.168.0.0/24, 192.168.0.0/25 and 192.168.1.0/24 ----
\* The set bits of the address a.b.c.d.
Octet(v, base) == {base + k : k \in {i \in 0..7 : (v \div (2 ^ i)) % 2 = 1}}

Dotted(a, b, c, d) == Octet(a, 24) \cup Octet(b, 16) \cup Octet(c, 8) \cup Octet(d, 0)

Net_192_168_0_0_24 == NewNetwork(Dotted(192, 168, 0, 0), 24)

Net_192_168_0_0_25 == NewNetwork(Dotted(192, 168, 0, 0), 25)

Net_192_168_1_0_24 == NewNetwork(Dotted(192, 168, 1, 0), 24)

ScenarioNets == {Net_192_168_0_0_24, Net_192_168_0_0_25, Net_192_168_1_0_24}

ScenarioInsert(network) ==
    LET r == insert(heap, Root, NewNetwork(network.num, network.len))
    IN  /\ Running
        /\ Len(hist) < MaxCalls
        /\ heap' = Compact(r.heap)
        /\ present' = IF r.err = NoErr THEN present \cup {network} ELSE present
        /\ last' = Call("Insert", r.err, r.err = NoErr)
        /\ hist' = Append(hist, <<"Insert", network>>)
        /\ UNCHANGED <<raceVars, walkVars>>

ScenarioRemove(network) ==
    /\ Len(hist) < MaxCalls
    /\ Remove(network)
    /\ hist' = Append(hist, <<"Remove", network>>)
    /\ UNCHANGED <<raceVars, walkVars>>

ScenarioNext ==
    \/ \E network \in ScenarioNets : ScenarioInsert(network)
    \/ \E network \in ScenarioNets : ScenarioRemove(network)

SpecScenario == Init /\ [][ScenarioNext]_vars

ScenarioA ==
    << <<"Insert", Net_192_168_0_0_24>>, <<"Insert", Net_192_168_0_0_25>>,
       <<"Insert", Net_192_168_1_0_24>> >>

ScenarioB == Append(ScenarioA, <<"Remove", Net_192_168_0_0_25>>)

\* C12: after the three Inserts, Contains(192.168.0.1) is true,
\* ContainingNetworks(192.168.0.1) = [192.168.0.0/24, 192.168.0.0/25],
\* Contains(192.168.1.5) is true and Contains(10.0.0.1) is false; then
\* Remove(192.168.0.0/25) returns the network and
\* ContainingNetworks(192.168.0.1) = [192.168.0.0/24].
C12_Scenario ==
    /\ hist = ScenarioA =>
          /\ Contains(heap, IP(Dotted(192, 168, 0, 1))) = [val |-> TRUE, err |-> NoErr]
          /\ ContainingNetworks(heap, IP(Dotted(192, 168, 0, 1)))
                = [val |-> <<Net_192_168_0_0_24, Net_192_168_0_0_25>>, err |-> NoErr]
          /\ Contains(heap, IP(Dotted(192, 168, 1, 5))) = [val |-> TRUE, err |-> NoErr]
          /\ Contains(heap, IP(Dotted(10, 0, 0, 1))) = [val |-> FALSE, err |-> NoErr]
    /\ hist = ScenarioB =>
          /\ last = Call("Remove", NoErr, TRUE)
          /\ ContainingNetworks(heap, IP(Dotted(192, 168, 0, 1)))
                = [val |-> <<Net_192_168_0_0_24>>, err |-> NoErr]

\* The four calls of the scenario have been made.
C12_Witness == hist = ScenarioB

\* ---- two calls at a time, without serialization ---------------------------
\* The call has been made and has not returned.
InFlight(q) == q.pc \notin {"idle", "done"}

\* The call has taken a step: it has left the entry of its call on the root.
Started(q) ==
    /\ q.op # "idle"
    /\ (q.p # Root \/ q.pc \notin {"insert", "remove", "contains", "containingNetworks"})

\* The calls that race work on the networks of at most MaxRaceLen bits
\* inside 0.0.0.0/1.
RaceNets ==
    {NewNetwork(a, n) :
        a \in SUBSET {b \in 0..30 : b >= 32 - MaxRaceLen}, n \in 0..MaxRaceLen}

\* The trie the two calls meet: at most MaxSetup networks, inserted one
\* call after the other.
Setup(network) ==
    /\ procs = <<Idle, Idle>>
    /\ Cardinality(present) < MaxSetup
    /\ Insert(network)
    /\ UNCHANGED <<scenarioVars, raceVars, walkVars>>

WriterCalls ==
    {Begin(op, n, {}) : op \in {"Insert", "Remove"}, n \in RaceNets}

ReaderCalls ==
    {Begin(op, NoNet, a) : op \in {"Contains", "ContainingNetworks"}, a \in Addrs}

\* Both calls are made; neither has taken a step.
Start(q1, q2) ==
    /\ procs = <<Idle, Idle>>
    /\ Running
    /\ procs' = <<q1, q2>>
    /\ heap0' = heap
    /\ UNCHANGED <<heap, present, last, scenarioVars, overlap, walkVars>>

\* Call i takes its next step, given by step(heap, procs[i]).
Step(i, op, r) ==
    /\ procs[i].op = op
    /\ InFlight(procs[i])
    /\ heap' = r.heap
    /\ procs' = [procs EXCEPT ![i] = r.proc]
    /\ overlap' = (overlap \/ (Started(procs[3 - i]) /\ InFlight(procs[3 - i])))
    /\ UNCHANGED <<present, last, scenarioVars, heap0, walkVars>>

InsertStep(i) == Step(i, "Insert", insertStep(heap, procs[i]))

RemoveStep(i) == Step(i, "Remove", removeStep(heap, procs[i]))

WritersNext ==
    \/ \E network \in RaceNets : Setup(network)
    \/ \E q1 \in WriterCalls : \E q2 \in WriterCalls :
          /\ q1.op = "Insert" /\ q1.net # q2.net
          /\ q2.op = "Insert" => q1.net.len <= q2.net.len
          /\ q2.op = "Remove" => q2.net \in present
          /\ Start(q1, q2)
    \/ \E i \in 1..2 : InsertStep(i)
    \/ \E i \in 1..2 : RemoveStep(i)

SpecWriters == Init /\ [][WritersNext]_vars

\* What an unsynchronized read of node p can return while call w is writing
\* the trie: for each child slot and for the entry flag, the value it holds
\* now or the value it held when the call began (the zero value for a node
\* the call allocated).
Views(w, p) ==
    IF ~InFlight(procs[w]) \/ p = Nil THEN {heap}
    ELSE LET old == IF p <= Len(heap0) THEN heap0[p]
                    ELSE [heap[p] EXCEPT !.children = <<Nil, Nil>>, !.hasEntry = FALSE]
         IN  {[heap EXCEPT ![p].children = <<c1, c2>>, ![p].hasEntry = e] :
                 c1 \in {heap[p].children[1], old.children[1]},
                 c2 \in {heap[p].children[2], old.children[2]},
                 e \in {heap[p].hasEntry, old.hasEntry}}

\* A step of query i, which reads the node it is on while call w may be
\* writing the trie.
ReadStep(i, op, r) == Step(i, op, [heap |-> heap, proc |-> r.proc])

RacingContainsStep(i, w) ==
    \E v \in Views(w, procs[i].p) :
        ReadStep(i, "Contains", containsStep(v, procs[i]))

RacingContainingNetworksStep(i, w) ==
    \E v \in Views(w, procs[i].p) :
        ReadStep(i, "ContainingNetworks", containingNetworksStep(v, procs[i]))

ReaderNext ==
    \/ \E network \in RaceNets : Setup(network)
    \/ \E q1 \in WriterCalls : \E q2 \in ReaderCalls :
          (q1.op = "Remove" => q1.net \in present) /\ Start(q1, q2)
    \/ InsertStep(1)
    \/ RemoveStep(1)
    \/ RacingContainsStep(2, 1)
    \/ RacingContainingNetworksStep(2, 1)

SpecReader == Init /\ [][ReaderNext]_vars

BothDone == procs[1].pc = "done" /\ procs[2].pc = "done"
\* The nodes the root reaches through child slots, in a heap whose links
\* may have been torn into a cycle.
RECURSIVE ReachDown(_, _, _)
ReachDown(h, seen, p) ==
    IF p = Nil \/ p \in seen THEN seen
    ELSE ReachDown(h, ReachDown(h, seen \cup {p}, h[p].children[1]), h[p].children[2])

\* The networks with an entry in the tree under the root.
Entries(h) == {h[p].network : p \in {x \in ReachDown(h, {}, Root) : h[x].hasEntry}}

\* Both calls returned success, and a network whose Insert succeeded, or an
\* entry that was in the tree before and that no call removed, is no longer
\* reachable from the root.
Lost ==
    /\ BothDone
    /\ procs[1].err = NoErr /\ procs[2].err = NoErr
    /\ \/ \E i \in 1..2 : procs[i].op = "Insert" /\ procs[i].net \notin Entries(heap)
       \/ \E n \in Entries(heap0) \ Entries(heap) :
             \A i \in 1..2 : ~(procs[i].op = "Remove" /\ procs[i].net = n)

\* C18: two mutating calls on different networks whose steps interleave
\* can lose an update; calls that do not interleave never do.
C18_LossOnlyWhenInterleaved == Lost => overlap

\* Two interleaved calls have both returned success and an update is lost.
C18_Witness == Lost /\ overlap /\ procs[1].op = "Insert" /\ procs[2].op = "Insert"

\* The answer of query q on the trie h when nothing else runs.
Answer(h, q) ==
    IF q.op = "Contains"
    THEN LET r == contains(h, Root, q.num)
         IN  [err |-> r.err, ok |-> r.val, results |-> <<>>]
    ELSE LET r == containingNetworks(h, Root, q.num)
         IN  [err |-> r.err, ok |-> FALSE, results |-> r.val]

\* The answer call q returned.
Got(q) == [err |-> q.err, ok |-> q.ok, results |-> q.results]

\* The mutation and the query have returned, and the query's answer is
\* neither its answer on the trie before the mutation nor on the trie after.
Neither ==
    /\ BothDone
    /\ Got(procs[2]) \notin {Answer(heap0, procs[2]), Answer(heap, procs[2])}

NoGoroutine == [pc |-> "none", subNetworks |-> <<>>, k |-> 1, network |-> NoNet]

\* The children walkDepth is called on, in the order of the loop over
\* p.children, slot 1 first.
subNetworksSlot1First(h, p) ==
    SelectSeq(<<h[p].children[2], h[p].children[1]>>, LAMBDA c : c # Nil)

\* The children walkDepth is called on, in the order of the loop over
\* p.children.
subNetworks(h, p) ==
    SelectSeq(<<h[p].children[1], h[p].children[2]>>, LAMBDA c : c # Nil)

\* The trie that is walked: at most MaxWalkNets networks, by serialized calls.
WalkInsert(network) ==
    /\ consumer = "idle"
    /\ Cardinality(present) < MaxWalkNets
    /\ Insert(network)
    /\ UNCHANGED <<scenarioVars, raceVars, walkVars>>

WalkRemove(network) ==
    /\ consumer = "idle"
    /\ network \in present
    /\ Remove(network)
    /\ UNCHANGED <<scenarioVars, raceVars, walkVars>>

\* The consumer calls walkDepth on the root and ranges over the channel.
WalkStart ==
    /\ consumer = "idle"
    /\ Running
    /\ gor' = [n \in 1..Len(heap) |->
                  IF n = Root THEN [NoGoroutine EXCEPT !.pc = "hasEntry"] ELSE NoGoroutine]
    /\ consumer' = "recv"
    /\ UNCHANGED <<heap, present, last, scenarioVars, raceVars, closed, out>>

WalkNodes == DOMAIN gor

\* if p.hasEntry
GoHasEntry(n) ==
    /\ gor[n].pc = "hasEntry"
    /\ gor' = [gor EXCEPT ![n].pc = IF heap[n].hasEntry THEN "sendEntry" ELSE "children",
                          ![n].network = IF heap[n].hasEntry THEN heap[n].network ELSE NoNet]
    /\ UNCHANGED <<heap, present, last, scenarioVars, raceVars, closed, out, consumer>>

\* The loop that calls walkDepth on the children: each call makes a channel
\* and starts a goroutine.
GoChildren(n) ==
    /\ gor[n].pc = "children"
    /\ LET subs == subNetworks(heap, n)
       IN  gor' = [m \in WalkNodes |->
                      IF m = n THEN [gor[n] EXCEPT !.pc = "range", !.subNetworks = subs, !.k = 1]
                      ELSE IF \E i \in 1..Len(subs) : subs[i] = m
                      THEN [NoGoroutine EXCEPT !.pc = "hasEntry"]
                      ELSE gor[m]]
    /\ UNCHANGED <<heap, present, last, scenarioVars, raceVars, closed, out, consumer>>

Sending(n) == gor[n].pc \in {"sendEntry", "forward"}

AfterSend(n) == IF gor[n].pc = "sendEntry" THEN "children" ELSE "range"

Ranging(m, n) ==
    /\ gor[m].pc = "range"
    /\ gor[m].k <= Len(gor[m].subNetworks)
    /\ gor[m].subNetworks[gor[m].k] = n

\* A send on the channel of node n meets the receive of the goroutine that
\* ranges over it.
GoSend(n) ==
    /\ Sending(n)
    /\ \E m \in WalkNodes :
          /\ Ranging(m, n)
          /\ gor' = [gor EXCEPT ![n].pc = AfterSend(n), ![n].network = NoNet,
                                ![m].pc = "forward", ![m].network = gor[n].network]
    /\ UNCHANGED <<heap, present, last, scenarioVars, raceVars, closed, out, consumer>>

\* A send on the channel of the root meets the receive of the consumer.
ConsumerReceive ==
    /\ consumer = "recv"
    /\ Sending(Root)
    /\ out' = Append(out, gor[Root].network)
    /\ gor' = [gor EXCEPT ![Root].pc = AfterSend(Root), ![Root].network = NoNet]
    /\ UNCHANGED <<heap, present, last, scenarioVars, raceVars, closed, consumer>>

\* The range over a closed channel ends; the next channel is ranged over, or
\* the loop over subNetworks ends.
GoRangeEnd(m) ==
    /\ gor[m].pc = "range"
    /\ IF gor[m].k > Len(gor[m].subNetworks)
       THEN gor' = [gor EXCEPT ![m].pc = "close"]
       ELSE /\ gor[m].subNetworks[gor[m].k] \in closed
            /\ gor' = [gor EXCEPT ![m].k = @ + 1]
    /\ UNCHANGED <<heap, present, last, scenarioVars, raceVars, closed, out, consumer>>

\* close(networks), and the goroutine ends.
GoClose(n) ==
    /\ gor[n].pc = "close"
    /\ closed' = closed \cup {n}
    /\ gor' = [gor EXCEPT ![n] = [NoGoroutine EXCEPT !.pc = "done"]]
    /\ UNCHANGED <<heap, present, last, scenarioVars, raceVars, out, consumer>>

ConsumerEnd ==
    /\ consumer = "recv"
    /\ Root \in closed
    /\ consumer' = "done"
    /\ UNCHANGED <<heap, present, last, scenarioVars, raceVars, gor, closed, out>>

WalkSteps ==
    \/ \E n \in WalkNodes : GoHasEntry(n)
    \/ \E n \in WalkNodes : GoChildren(n)
    \/ \E n \in WalkNodes : GoSend(n)
    \/ \E n \in WalkNodes : GoRangeEnd(n)
    \/ \E n \in WalkNodes : GoClose(n)
    \/ ConsumerReceive
    \/ ConsumerEnd

WalkNext ==
    \/ \E network \in RaceNets : WalkInsert(network)
    \/ \E network \in RaceNets : WalkRemove(network)
    \/ WalkStart
    \/ WalkSteps

\* A goroutine that can take a step takes it, and the consumer keeps receiving.
SpecWalk == Init /\ [][WalkNext]_vars /\ WF_vars(WalkSteps)

\* The networks of the nodes with an entry under p, a node before its
\* children and the child in slot 0 before the child in slot 1.
RECURSIVE PreOrder(_, _)
PreOrder(h, p) ==
    IF p = Nil THEN <<>>
    ELSE (IF h[p].hasEntry THEN <<h[p].network>> ELSE <<>>)
         \o PreOrder(h, h[p].children[1]) \o PreOrder(h, h[p].children[2])

\* The consumer received the entries under the root in pre-order, each once,
\* the root's channel is closed and no goroutine is left running.
Walked ==
    /\ out = PreOrder(heap, Root)
    /\ Root \in closed
    /\ \A n \in WalkNodes : gor[n].pc \in {"none", "done"}

\* C20: on a trie that is not mutated meanwhile, with a consumer that keeps
\* receiving, the walk ends, and when it has ended the consumer has received
\* the networks of the entries in depth-first pre-order, each exactly once,
\* the channel is closed and every goroutine has terminated.
C20_WalkDeliversPreOrder ==
    /\ [](consumer = "done" => Walked)
    /\ (consumer = "recv") ~> (consumer = "done")

\* A walk that passed a node without entry and delivered at least three
\* networks has ended.
C20_Witness ==
    /\ consumer = "done"
    /\ Len(out) >= 3
    /\ \E n \in WalkNodes : gor[n].pc = "done" /\ ~heap[n].hasEntry

====
